---- MODULE Spec2Model ----
(***************************************************************************)
(* Model of app.py: the /compare request handler, compare_versions and     *)
(* highlight_diff.  Texts are sequences of characters, so that splitlines  *)
(* and the markup built by the f-strings are computed, not assumed.        *)
(***************************************************************************)
EXTENDS Integers, Sequences, FiniteSets, TLC

\* Largest number of lines of a help text in the diff-oriented inputs.
MaxLines == 4
\* Largest number of version identifiers in a submitted selection.
MaxReq == 3

NL == "\n"
\* One-character lines, no two of them similar
ShortLines == {<<"a">>, <<"b">>}
\* Lines of which "aa" and "aab" are similar enough (ratio 0.8) for Differ
\* to pair them and to add its "? " lines
SimilarLines == {<<"a", "a">>, <<"a", "a", "b">>, <<"b">>}

AllVersions == {"postgres_10", "postgres_11", "postgres_12"}
PairVersions == {"postgres_10", "postgres_11"}
\* The command names, listed in the order sorted() gives them.
EntryOrder == <<"ABORT", "ALTER">>

Range(s) == {s[k] : k \in DOMAIN s}
SeqsUpTo(S, n) == UNION {[1..k -> S] : k \in 0..n}

EmptyDict == [x \in {} |-> <<>>]
Put(d, k, v) == [x \in (DOMAIN d) \cup {k} |-> IF x = k THEN v ELSE d[x]]

RECURSIVE Join(_, _)
\* sep.join(parts), parts being sequences of characters / markup tokens
Join(sep, parts) ==
    IF parts = <<>> THEN <<>>
    ELSE IF Len(parts) = 1 THEN parts[1]
    ELSE parts[1] \o <<sep>> \o Join(sep, Tail(parts))

\* The file contents the inputs are drawn from: up to n one-character lines,
\* with or without a newline after the last line.
TextsUpTo(n) ==
    {Join(NL, ls) \o t : ls \in SeqsUpTo(ShortLines, n), t \in {<<>>, <<NL>>}}
\* Texts of one or two lines, similar lines among them
SimilarTexts == {Join(NL, ls) : ls \in SeqsUpTo(SimilarLines, 2)}
OrchTexts == {<<"a">>, <<"a", NL, "b">>}

Corpora(E, T) == UNION {[D -> T] : D \in SUBSET E}

----------------------------------------------------------------------------
(* str.splitlines() *)
RECURSIVE splitlines(_)
splitlines(s) ==
    IF s = <<>> THEN <<>>
    ELSE LET nls == {k \in 1..Len(s) : s[k] = NL}
             k   == IF nls = {} THEN Len(s) + 1
                    ELSE CHOOSE x \in nls : \A y \in nls : x <= y
         IN  <<SubSeq(s, 1, k - 1)>> \o splitlines(SubSeq(s, k + 1, Len(s)))

----------------------------------------------------------------------------
(* difflib.Differ().compare(lines1, lines2); indices are Python's, 0-based *)
MaxOf(S) == CHOOSE x \in S : \A y \in S : y <= x
MinOf(S) == CHOOSE x \in S : \A y \in S : x <= y

RECURSIVE Concat(_)
Concat(ss) == IF ss = <<>> THEN <<>> ELSE Head(ss) \o Concat(Tail(ss))

RECURSIVE Sum(_)
Sum(ns) == IF ns = <<>> THEN 0 ELSE Head(ns) + Sum(Tail(ns))

Repeat(ch, n) == [k \in 1..n |-> ch]

RECURSIVE RunLength(_, _, _, _, _, _)
\* The length of the common run of a from i and b from j inside the windows
RunLength(a, b, i, j, ahi, bhi) ==
    IF i < ahi /\ j < bhi /\ a[i + 1] = b[j + 1]
    THEN 1 + RunLength(a, b, i + 1, j + 1, ahi, bhi)
    ELSE 0

\* Of the starts P of the blocks of the longest size k, the earliest in a
\* and, among those, the earliest in b
earliest_block(P, k) ==
    LET i == MinOf({p[1] : p \in P})
    IN  <<i, MinOf({p[2] : p \in {q \in P : q[1] = i}}), k>>

longest_block(runs, alo, blo) ==
    LET k == MaxOf({runs[p] : p \in DOMAIN runs} \cup {0})
    IN  IF k = 0 THEN <<alo, blo, 0>>
        ELSE earliest_block({p \in DOMAIN runs : runs[p] = k}, k)

\* SequenceMatcher.find_longest_match: the longest block a[i:i+k] = b[j:j+k]
\* inside the windows; of the longest, the one starting earliest in a, and
\* of those the earliest in b; <<alo, blo, 0>> without a common element.
find_longest_match(a, b, alo, ahi, blo, bhi) ==
    longest_block([p \in (alo..(ahi - 1)) \X (blo..(bhi - 1)) |->
                      RunLength(a, b, p[1], p[2], ahi, bhi)], alo, blo)

\* The opcode of the stretch between two matching blocks
gap(alo, ahi, blo, bhi) ==
    IF alo < ahi /\ blo < bhi THEN << <<"replace", alo, ahi, blo, bhi>> >>
    ELSE IF alo < ahi THEN << <<"delete", alo, ahi, blo, bhi>> >>
    ELSE IF blo < bhi THEN << <<"insert", alo, ahi, blo, bhi>> >>
    ELSE <<>>

RECURSIVE get_opcodes(_, _, _, _, _, _, _)
\* SequenceMatcher.get_opcodes for the windows, m being their longest match:
\* the opcodes left of m, m as an "equal" opcode, the opcodes right of it
get_opcodes(a, b, alo, ahi, blo, bhi, m) ==
    IF m[3] = 0 THEN gap(alo, ahi, blo, bhi)
    ELSE get_opcodes(a, b, alo, m[1], blo, m[2],
                     find_longest_match(a, b, alo, m[1], blo, m[2]))
         \o << <<"equal", m[1], m[1] + m[3], m[2], m[2] + m[3]>> >>
         \o get_opcodes(a, b, m[1] + m[3], ahi, m[2] + m[3], bhi,
                        find_longest_match(a, b, m[1] + m[3], ahi, m[2] + m[3], bhi))

opcodes(a, b) ==
    get_opcodes(a, b, 0, Len(a), 0, Len(b),
                find_longest_match(a, b, 0, Len(a), 0, Len(b)))

\* Differ._dump: one output line per input line, the two-character tag first
Dump(tag, x, lo, hi) == [n \in 1..(hi - lo) |-> tag \o x[lo + n]]

\* Differ._plain_replace: the shorter block first
plain_replace(a, b, alo, ahi, blo, bhi) ==
    IF bhi - blo < ahi - alo
    THEN Dump(<<"+", " ">>, b, blo, bhi) \o Dump(<<"-", " ">>, a, alo, ahi)
    ELSE Dump(<<"-", " ">>, a, alo, ahi) \o Dump(<<"+", " ">>, b, blo, bhi)

equal_sizes(ops) ==
    [k \in 1..Len(ops) |-> IF ops[k][1] = "equal" THEN ops[k][3] - ops[k][2] ELSE 0]

\* SequenceMatcher.ratio() of two lines as the fraction <<2 * M, T>>, M the
\* total size of the matching blocks
ratio(x, y) == <<2 * Sum(equal_sizes(opcodes(x, y))), Len(x) + Len(y)>>

\* ratio p > ratio q, both with a positive denominator
Greater(p, q) == p[1] * q[2] > q[1] * p[2]

\* The marks under the first line: ^ replaced, - deleted
atags_of(ops) ==
    Concat([k \in 1..Len(ops) |->
        CASE ops[k][1] = "replace" -> Repeat("^", ops[k][3] - ops[k][2])
          [] ops[k][1] = "delete" -> Repeat("-", ops[k][3] - ops[k][2])
          [] ops[k][1] = "insert" -> <<>>
          [] ops[k][1] = "equal" -> Repeat(" ", ops[k][3] - ops[k][2])])

\* The marks under the second line: ^ replaced, + inserted
btags_of(ops) ==
    Concat([k \in 1..Len(ops) |->
        CASE ops[k][1] = "replace" -> Repeat("^", ops[k][5] - ops[k][4])
          [] ops[k][1] = "delete" -> <<>>
          [] ops[k][1] = "insert" -> Repeat("+", ops[k][5] - ops[k][4])
          [] ops[k][1] = "equal" -> Repeat(" ", ops[k][5] - ops[k][4])])

RECURSIVE rstrip(_)
rstrip(t) ==
    IF t # <<>> /\ t[Len(t)] = " " THEN rstrip(SubSeq(t, 1, Len(t) - 1)) ELSE t

\* "? " + tags + "\n", when there is any mark
hint(tags) == IF tags # <<>> THEN << <<"?", " ">> \o tags \o <<NL>> >> ELSE <<>>

\* Differ._qformat on the opcodes of the two lines: each line, followed by
\* its "? " line of marks
qformat(aline, bline, ops) ==
    << <<"-", " ">> \o aline >> \o hint(rstrip(atags_of(ops)))
    \o << <<"+", " ">> \o bline >> \o hint(rstrip(btags_of(ops)))

\* The pair of ratios[p] greatest among those above 0.74, the first such pair
\* in the order of the loops of Differ._fancy_replace (b outside, a inside);
\* <<>> without one
first_best(ratios) ==
    LET good == {p \in DOMAIN ratios : Greater(ratios[p], <<74, 100>>)}
        Earlier(p, q) == p[2] < q[2] \/ (p[2] = q[2] /\ p[1] < q[1])
    IN  IF good = {} THEN <<>>
        ELSE CHOOSE p \in good :
                \A q \in good \ {p} :
                   \/ Greater(ratios[p], ratios[q])
                   \/ (~ Greater(ratios[q], ratios[p]) /\ Earlier(p, q))

best_pair(a, b, alo, ahi, blo, bhi) ==
    first_best([p \in (alo..(ahi - 1)) \X (blo..(bhi - 1)) |->
                   ratio(a[p[1] + 1], b[p[2] + 1])])

RECURSIVE fancy_helper(_, _, _, _, _, _, _)
\* Differ._fancy_helper, with Differ._fancy_replace as its case of two
\* blocks that are not empty and have no common line (texts of 200 lines or
\* more, where the matcher sets frequent lines aside, are out of reach
\* here).  best is the most similar pair of the blocks: it synchronises
\* them; without one they are replaced plainly.
fancy_helper(a, b, alo, ahi, blo, bhi, best) ==
    IF alo >= ahi THEN Dump(<<"+", " ">>, b, blo, bhi)
    ELSE IF blo >= bhi THEN Dump(<<"-", " ">>, a, alo, ahi)
    ELSE IF best = <<>> THEN plain_replace(a, b, alo, ahi, blo, bhi)
    ELSE fancy_helper(a, b, alo, best[1], blo, best[2],
                      best_pair(a, b, alo, best[1], blo, best[2]))
         \o qformat(a[best[1] + 1], b[best[2] + 1],
                    opcodes(a[best[1] + 1], b[best[2] + 1]))
         \o fancy_helper(a, b, best[1] + 1, ahi, best[2] + 1, bhi,
                         best_pair(a, b, best[1] + 1, ahi, best[2] + 1, bhi))

\* The output lines of Differ.compare for one opcode
compare_opcode(a, b, op) ==
    CASE op[1] = "replace" ->
            fancy_helper(a, b, op[2], op[3], op[4], op[5],
                         best_pair(a, b, op[2], op[3], op[4], op[5]))
      [] op[1] = "delete" -> Dump(<<"-", " ">>, a, op[2], op[3])
      [] op[1] = "insert" -> Dump(<<"+", " ">>, b, op[4], op[5])
      [] op[1] = "equal" -> Dump(<<" ", " ">>, a, op[2], op[3])

compare_opcodes(a, b, ops) ==
    Concat([k \in 1..Len(ops) |-> compare_opcode(a, b, ops[k])])

Differ_compare(lines1, lines2) ==
    compare_opcodes(lines1, lines2, opcodes(lines1, lines2))

----------------------------------------------------------------------------
(* highlight_diff: the body of the loop over the pairs *)
SpanUnchanged == "<span class=\"unchanged\">"
SpanDeleted == "<span class=\"deleted\" style=\"background-color: #ffeef0;\">"
SpanAdded == "<span class=\"added\" style=\"background-color: #e6ffed;\">"
SpanClose == "</span>"
PreOpen == "<pre>"
PreClose == "</pre>"

startswith(line, prefix) ==
    Len(line) >= Len(prefix) /\ SubSeq(line, 1, Len(prefix)) = prefix

Span(open, line) == <<open>> \o SubSeq(line, 3, Len(line)) \o <<SpanClose>>

highlighted_1_without_deleted(diff) ==
    LET kept == SelectSeq(diff, LAMBDA l : startswith(l, <<" ", " ">>))
    IN  [n \in 1..Len(kept) |-> Span(SpanUnchanged, kept[n])]

\* highlighted_1 after the loop over the diff lines
highlighted_1(diff) ==
    LET kept == SelectSeq(diff, LAMBDA l : startswith(l, <<" ", " ">>)
                                           \/ startswith(l, <<"-", " ">>))
    IN  [n \in 1..Len(kept) |->
            IF startswith(kept[n], <<" ", " ">>)
            THEN Span(SpanUnchanged, kept[n])
            ELSE Span(SpanDeleted, kept[n])]

highlighted_2_else_added(diff) ==
    LET kept == SelectSeq(diff, LAMBDA l : ~ startswith(l, <<"-", " ">>))
    IN  [n \in 1..Len(kept) |->
            IF startswith(kept[n], <<" ", " ">>)
            THEN Span(SpanUnchanged, kept[n])
            ELSE Span(SpanAdded, kept[n])]

\* highlighted_2 after the loop over the diff lines
highlighted_2(diff) ==
    LET kept == SelectSeq(diff, LAMBDA l : startswith(l, <<" ", " ">>)
                                           \/ startswith(l, <<"+", " ">>))
    IN  [n \in 1..Len(kept) |->
            IF startswith(kept[n], <<" ", " ">>)
            THEN Span(SpanUnchanged, kept[n])
            ELSE Span(SpanAdded, kept[n])]

pre_unless_empty(spans) ==
    IF spans = <<>> THEN <<>> ELSE <<PreOpen>> \o Join(NL, spans) \o <<PreClose>>

\* "<pre>" + "\n".join(spans) + "</pre>"
pre(spans) == <<PreOpen>> \o Join(NL, spans) \o <<PreClose>>

\* The two renderings of one pair of texts, <<left, right>>
renderings(diff) == <<pre(highlighted_1(diff)), pre(highlighted_2(diff))>>

HighlightPair(text1, text2) ==
    renderings(Differ_compare(splitlines(text1), splitlines(text2)))

store_first_wins(h, v1, r1, v2, r2) ==
    LET h1 == IF v1 \in DOMAIN h THEN h ELSE Put(h, v1, r1)
    IN  IF v2 \in DOMAIN h1 THEN h1 ELSE Put(h1, v2, r2)

store_under_v2_twice(h, v1, r1, v2, r2) == Put(Put(h, v2, r1), v2, r2)

\* highlighted[v1] = ...; highlighted[v2] = ...
store(h, v1, r1, v2, r2) == Put(Put(h, v1, r1), v2, r2)

RECURSIVE dict_keys(_)
\* list(d.keys()) of a dict filled in the order of vs
dict_keys(vs) ==
    IF vs = <<>> THEN <<>>
    ELSE LET front == dict_keys(SubSeq(vs, 1, Len(vs) - 1))
             last  == vs[Len(vs)]
         IN  IF last \in Range(front) THEN front ELSE Append(front, last)

----------------------------------------------------------------------------
(* compare_versions *)
\* get_help_files(version)
get_help_files(dir, version) == dir[version]

\* sorted(all_commands)
sorted_commands(files) ==
    LET all_commands == UNION {DOMAIN files[v] : v \in DOMAIN files}
    IN  SelectSeq(EntryOrder, LAMBDA e : e \in all_commands)

\* {version: help_files[version].get(cmd, "") for version in versions}
cmd_versions_of(files, versions, cmd) ==
    [v \in Range(versions) |->
        IF cmd \in DOMAIN files[v] THEN files[v][cmd] ELSE <<>>]

any_differs_second_only(cv, versions) ==
    Len(versions) >= 2 /\ cv[versions[2]] # cv[versions[1]]

any_differs_from_empty(cv, versions) ==
    \E k \in 1..Len(versions) : cv[versions[k]] # <<>>

\* any(cmd_versions[version] != cmd_versions[versions[0]] for version in versions[1:])
any_differs(cv, versions) ==
    \E k \in 2..Len(versions) : cv[versions[k]] # cv[versions[1]]

too_few_below_one(selected) == Len(selected) < 1

\* len(selected_versions) < 2
too_few(selected) == Len(selected) < 2

----------------------------------------------------------------------------
VARIABLES
    help_dir,       \* help_files/<version>/<command>.txt on disk
    request,        \* the submitted "versions" list / the versions argument
    pc,             \* "idle", "for_cmd", "highlight" or "done"
    caller,         \* "none", "handler" (POST /compare) or "direct"
    loads,          \* the versions get_help_files was called with, in order
    calls,          \* the arguments compare_versions was called with
    help_files,     \* compare_versions: help_files
    cmds,           \* compare_versions: sorted(all_commands)
    c,              \* compare_versions: position of the loop in cmds
    diffs,          \* compare_versions: diffs
    cmd_versions,   \* highlight_diff: cmd_versions
    keys,           \* highlight_diff: versions
    i,              \* highlight_diff: outer loop index
    j,              \* highlight_diff: inner loop index
    highlighted,    \* highlight_diff: highlighted
    pairs,          \* the pairs (i, j) the current highlight_diff went through
    returned,       \* the value compare_versions returned
    response        \* the handler's response

vars == <<help_dir, request, pc, caller, loads, calls, help_files, cmds, c,
          diffs, cmd_versions, keys, i, j, highlighted, pairs, returned,
          response>>

hd_vars == <<cmd_versions, keys, i, j, highlighted, pairs>>

NoResponse ==
    [status |-> 0, body |-> "", versions |-> <<>>, diff_results |-> EmptyDict]

InitWith(V, E, T, n) ==
    /\ help_dir \in [V -> Corpora(E, T)]
    /\ request \in SeqsUpTo(V, n)
    /\ pc = "idle"
    /\ caller = "none"
    /\ loads = <<>>
    /\ calls = <<>>
    /\ help_files = EmptyDict
    /\ cmds = <<>>
    /\ c = 1
    /\ diffs = EmptyDict
    /\ cmd_versions = EmptyDict
    /\ keys = <<>>
    /\ i = 0
    /\ j = 0
    /\ highlighted = EmptyDict
    /\ pairs = <<>>
    /\ returned = EmptyDict
    /\ response = NoResponse

\* Three versions, two commands, short texts, selections of up to MaxReq.
Init == InitWith(AllVersions, Range(EntryOrder), OrchTexts, MaxReq)

\* Two versions, one command, every text of up to MaxLines short lines and
\* the texts with similar lines.
InitDiff ==
    InitWith(PairVersions, {"ALTER"}, TextsUpTo(MaxLines) \cup SimilarTexts, 2)

\* compare_versions, up to the loop over the commands
enter_compare_versions(versions) ==
    LET files == [v \in Range(versions) |-> get_help_files(help_dir, v)]
    IN  /\ calls' = Append(calls, versions)
        /\ loads' = loads \o versions
        /\ help_files' = files
        /\ cmds' = sorted_commands(files)
        /\ c' = 1
        /\ diffs' = EmptyDict
        /\ pc' = "for_cmd"

\* POST /compare
compare ==
    /\ pc = "idle"
    /\ caller' = "handler"
    /\ IF too_few(request)
       THEN /\ response' = [status |-> 400,
                            body |-> "Please select at least two versions for comparison.",
                            versions |-> <<>>, diff_results |-> EmptyDict]
            /\ pc' = "done"
            /\ UNCHANGED <<loads, calls, help_files, cmds, c, diffs>>
       ELSE /\ enter_compare_versions(request)
            /\ UNCHANGED response
    /\ UNCHANGED <<help_dir, request, returned>>
    /\ UNCHANGED hd_vars

\* compare_versions(versions) called without the handler
compare_versions ==
    /\ pc = "idle"
    /\ caller' = "direct"
    /\ enter_compare_versions(request)
    /\ UNCHANGED <<help_dir, request, returned, response>>
    /\ UNCHANGED hd_vars

\* one iteration of "for cmd in sorted(all_commands)", up to the call of
\* highlight_diff
for_cmd ==
    /\ pc = "for_cmd"
    /\ c <= Len(cmds)
    /\ LET cv == cmd_versions_of(help_files, request, cmds[c])
       IN  IF any_differs(cv, request)
           THEN /\ cmd_versions' = cv
                /\ keys' = dict_keys(request)
                /\ i' = 0
                /\ j' = 1
                /\ highlighted' = EmptyDict
                /\ pairs' = <<>>
                /\ pc' = "highlight"
                /\ UNCHANGED c
           ELSE /\ c' = c + 1
                /\ UNCHANGED pc
                /\ UNCHANGED hd_vars
    /\ UNCHANGED <<help_dir, request, caller, loads, calls, help_files, cmds,
                   diffs, returned, response>>

\* highlight_diff: one pair (i, j) of the two nested loops
highlight_pair ==
    /\ pc = "highlight"
    /\ i < Len(keys) - 1
    /\ LET v1 == keys[i + 1]
           v2 == keys[j + 1]
           r  == HighlightPair(cmd_versions[v1], cmd_versions[v2])
       IN  highlighted' = store(highlighted, v1, r[1], v2, r[2])
    /\ pairs' = Append(pairs, <<i, j>>)
    /\ IF j + 1 < Len(keys)
       THEN j' = j + 1 /\ UNCHANGED i
       ELSE i' = i + 1 /\ j' = i + 2
    /\ UNCHANGED <<help_dir, request, pc, caller, loads, calls, help_files,
                   cmds, c, diffs, cmd_versions, keys, returned, response>>

\* highlight_diff returns: diffs[cmd] = highlighted, next command
highlight_return ==
    /\ pc = "highlight"
    /\ i >= Len(keys) - 1
    /\ diffs' = Put(diffs, cmds[c], highlighted)
    /\ c' = c + 1
    /\ pc' = "for_cmd"
    /\ UNCHANGED <<help_dir, request, caller, loads, calls, help_files, cmds,
                   returned, response>>
    /\ UNCHANGED hd_vars

\* compare_versions returns diffs; the handler renders compare.html with it
return_diffs ==
    /\ pc = "for_cmd"
    /\ c > Len(cmds)
    /\ returned' = diffs
    /\ response' = IF caller = "handler"
                   THEN [status |-> 200, body |-> "compare.html",
                         versions |-> request, diff_results |-> diffs]
                   ELSE response
    /\ pc' = "done"
    /\ UNCHANGED <<help_dir, request, caller, loads, calls, help_files, cmds,
                   c, diffs>>
    /\ UNCHANGED hd_vars

Next ==
    \/ compare
    \/ compare_versions
    \/ for_cmd
    \/ highlight_pair
    \/ highlight_return
    \/ return_diffs

Spec == Init /\ [][Next]_vars

SpecDiff == InitDiff /\ [][Next]_vars

----------------------------------------------------------------------------
(* Vocabulary of the properties *)

\* The text a version has for a command, "" when its corpus lacks it
TextOf(v, cmd) ==
    IF cmd \in DOMAIN help_dir[v] THEN help_dir[v][cmd] ELSE <<>>

\* compare_versions has returned
Returned == pc = "done" /\ calls # <<>>

NoRepeat(s) == Cardinality(Range(s)) = Len(s)

\* One block container: "<pre>", no further pre tag, "</pre>"
IsBlock(r) ==
    /\ Len(r) >= 2
    /\ r[1] = PreOpen
    /\ r[Len(r)] = PreClose
    /\ \A k \in 2..(Len(r) - 1) : r[k] \notin {PreOpen, PreClose}

TagOf(tok) ==
    CASE tok = SpanUnchanged -> "unchanged"
      [] tok = SpanDeleted -> "deleted"
      [] tok = SpanAdded -> "added"
      [] OTHER -> "none"

RECURSIVE ParseSpans(_)
ParseSpans(s) ==
    IF s = <<>> THEN <<>>
    ELSE LET closes == {k \in 1..Len(s) : s[k] = SpanClose}
             k == IF closes = {} THEN Len(s) + 1
                  ELSE CHOOSE x \in closes : \A y \in closes : x <= y
         IN  <<[tag |-> TagOf(s[1]), text |-> SubSeq(s, 2, k - 1)]>>
             \o ParseSpans(SubSeq(s, k + 2, Len(s)))

\* The tagged lines read back from a rendering
RenderedLines(r) ==
    IF IsBlock(r) THEN ParseSpans(SubSeq(r, 2, Len(r) - 1)) ELSE <<>>

TextsOf(ls) == [k \in 1..Len(ls) |-> ls[k].text]
Tagged(ls, tag) == TextsOf(SelectSeq(ls, LAMBDA l : l.tag = tag))
TagsOf(ls) == {ls[k].tag : k \in 1..Len(ls)}

\* The pairs (0,1), (0,2), ..., (n-2,n-1) in that order
PairOrder(n) ==
    LET P == {p \in (0..(n - 1)) \X (0..(n - 1)) : p[1] < p[2]}
        Before(q, p) == q[1] < p[1] \/ (q[1] = p[1] /\ q[2] < p[2])
    IN  [r \in 1..Cardinality(P) |->
            CHOOSE p \in P : Cardinality({q \in P : Before(q, p)}) = r - 1]

IsPrefix(s, t) == Len(s) <= Len(t) /\ SubSeq(t, 1, Len(s)) = s

DiffersAtOnePosition(a, b) ==
    Len(a) = Len(b) /\ Cardinality({k \in 1..Len(a) : a[k] # b[k]}) = 1

----------------------------------------------------------------------------
\* C1: once compare_versions has returned for a selection of 2 or more
\* versions, a command of the union of the selected corpora is a key of the
\* result exactly when some selected version's text for it differs from the
\* first selected version's text; the result has no other key.
C1_DiffersIffInResult ==
    (Returned /\ Len(request) >= 2) =>
        /\ \A cmd \in UNION {DOMAIN help_dir[v] : v \in Range(request)} :
              cmd \in DOMAIN returned <=>
                 \E k \in 2..Len(request) :
                    TextOf(request[k], cmd) # TextOf(request[1], cmd)
        /\ DOMAIN returned \subseteq
              UNION {DOMAIN help_dir[v] : v \in Range(request)}

C1_Witness ==
    /\ Returned
    /\ Len(request) = 3
    /\ NoRepeat(request)
    /\ \E cmd \in DOMAIN returned :
          /\ TextOf(request[2], cmd) = TextOf(request[1], cmd)
          /\ TextOf(request[3], cmd) # TextOf(request[1], cmd)
    /\ \E cmd \in DOMAIN help_dir[request[1]] : cmd \notin DOMAIN returned

\* C2: for two distinct versions (left, right), the lines of the left
\* rendering are, in order, the lines of the left text, each unchanged or
\* deleted; those of the right rendering are the lines of the right text,
\* each unchanged or added; the unchanged lines are the same sequence on
\* both sides.
C2_EveryLineOnce ==
    (Returned /\ Len(request) = 2 /\ request[1] # request[2]) =>
        \A cmd \in DOMAIN returned :
            LET l == RenderedLines(returned[cmd][request[1]])
                r == RenderedLines(returned[cmd][request[2]])
            IN  /\ TextsOf(l) = splitlines(TextOf(request[1], cmd))
                /\ TagsOf(l) \subseteq {"unchanged", "deleted"}
                /\ TextsOf(r) = splitlines(TextOf(request[2], cmd))
                /\ TagsOf(r) \subseteq {"unchanged", "added"}
                /\ Tagged(l, "unchanged") = Tagged(r, "unchanged")

C2_Witness ==
    /\ Returned /\ Len(request) = 2 /\ request[1] # request[2]
    /\ \E cmd \in DOMAIN returned :
          LET l == RenderedLines(returned[cmd][request[1]])
              r == RenderedLines(returned[cmd][request[2]])
          IN  /\ TagsOf(l) = {"unchanged", "deleted"}
              /\ TagsOf(r) = {"unchanged", "added"}
              /\ Len(Tagged(l, "unchanged")) >= 2

\* What C3 states of one command of a two-version comparison, given the
\* lines a and b of the two texts
OneDeletedOneAdded(cmd, a, b) ==
    LET p == CHOOSE k \in 1..Len(a) : a[k] # b[k]
        l == RenderedLines(returned[cmd][request[1]])
        r == RenderedLines(returned[cmd][request[2]])
    IN  /\ cmd \in DOMAIN returned
        /\ Tagged(l, "deleted") = <<a[p]>>
        /\ Tagged(r, "added") = <<b[p]>>
        /\ Len(Tagged(l, "unchanged")) = Len(a) - 1
        /\ Len(Tagged(r, "unchanged")) = Len(b) - 1
        /\ Len(l) = Len(a)
        /\ Len(r) = Len(b)

\* C3 as stated: two texts with the same number of lines that differ at
\* exactly one position get exactly one deleted line (the left one) and
\* exactly one added line (the right one), every other line unchanged.
C3_AsStated ==
    (Returned /\ Len(request) = 2 /\ request[1] # request[2]) =>
        \A cmd \in Range(EntryOrder) :
            LET a == splitlines(TextOf(request[1], cmd))
                b == splitlines(TextOf(request[2], cmd))
            IN  DiffersAtOnePosition(a, b) => OneDeletedOneAdded(cmd, a, b)

\* C3, amended: the same, when the lines at the other positions are
\* pairwise different.
C3_OtherLinesDistinct ==
    (Returned /\ Len(request) = 2 /\ request[1] # request[2]) =>
        \A cmd \in Range(EntryOrder) :
            LET a == splitlines(TextOf(request[1], cmd))
                b == splitlines(TextOf(request[2], cmd))
                same == {k \in 1..Len(a) : a[k] = b[k]}
            IN  (/\ DiffersAtOnePosition(a, b)
                 /\ \A m, n \in same : m # n => a[m] # a[n])
                => OneDeletedOneAdded(cmd, a, b)

C3_Witness ==
    /\ Returned /\ Len(request) = 2 /\ request[1] # request[2]
    /\ \E cmd \in DOMAIN returned :
          LET a == splitlines(TextOf(request[1], cmd))
              b == splitlines(TextOf(request[2], cmd))
              same == {k \in 1..Len(a) : a[k] = b[k]}
          IN  /\ DiffersAtOnePosition(a, b)
              /\ Len(a) = 3
              /\ a[2] # b[2]
              /\ \A m, n \in same : m # n => a[m] # a[n]
              /\ OneDeletedOneAdded(cmd, a, b)

\* The case of C4: exactly two versions, the command only in the second
\* one's corpus, with a text that is not empty
OnlyInSecond(cmd) ==
    /\ Len(request) = 2
    /\ request[1] # request[2]
    /\ cmd \notin DOMAIN help_dir[request[1]]
    /\ cmd \in DOMAIN help_dir[request[2]]
    /\ help_dir[request[2]][cmd] # <<>>

\* What C4 states but for the first version's rendering: the command is in
\* the result, every line of the second version's text is rendered as added,
\* and a command with the same text in both versions is not in the result.
OnlyInSecondAllAdded(cmd) ==
    LET r == RenderedLines(returned[cmd][request[2]])
    IN  /\ cmd \in DOMAIN returned
        /\ IsBlock(returned[cmd][request[2]])
        /\ TextsOf(r) = splitlines(help_dir[request[2]][cmd])
        /\ TagsOf(r) = {"added"}
        /\ \A e \in Range(EntryOrder) :
              TextOf(request[1], e) = TextOf(request[2], e) =>
                 e \notin DOMAIN returned

\* C4 as stated: when a command exists only in B's corpus, A's rendering of
\* it is the empty string, B's rendering has every line added, and commands
\* with equal text are excluded.
C4_AsStated ==
    Returned =>
        \A cmd \in Range(EntryOrder) :
            OnlyInSecond(cmd) =>
                /\ OnlyInSecondAllAdded(cmd)
                /\ returned[cmd][request[1]] = <<>>

\* C4, amended: A's rendering is the block container without any line,
\* "<pre></pre>"; the rest as stated.
C4_EmptyBlockForMissing ==
    Returned =>
        \A cmd \in Range(EntryOrder) :
            OnlyInSecond(cmd) =>
                /\ OnlyInSecondAllAdded(cmd)
                /\ returned[cmd][request[1]] = <<PreOpen, PreClose>>

C4_Witness ==
    /\ Returned
    /\ OnlyInSecond("ALTER")
    /\ Len(splitlines(help_dir[request[2]]["ALTER"])) = 2
    /\ "ABORT" \in DOMAIN help_dir[request[1]]
    /\ TextOf(request[1], "ABORT") = TextOf(request[2], "ABORT")
    /\ DOMAIN returned = {"ALTER"}
    /\ returned["ALTER"][request[1]] = <<PreOpen, PreClose>>

Message == "Please select at least two versions for comparison."

\* C6: the handler answers a selection of fewer than 2 versions with 400 and
\* the message, loading no corpus and calling compare_versions never; with 2
\* or more it calls compare_versions once, on the submitted list in its
\* order, and responds with that list and the value the call returned.
C6_HandlerGuard ==
    caller = "handler" =>
        IF Len(request) < 2
        THEN /\ pc = "done"
             /\ response.status = 400
             /\ response.body = Message
             /\ loads = <<>>
             /\ calls = <<>>
             /\ DOMAIN diffs = {}
        ELSE /\ calls = <<request>>
             /\ loads = request
             /\ pc # "done" => response = NoResponse
             /\ pc = "done" =>
                   /\ response.status = 200
                   /\ response.versions = request
                   /\ response.diff_results = returned
                   /\ returned = diffs

C6_Witness ==
    /\ caller = "handler"
    /\ Len(request) = 1
    /\ DOMAIN help_dir[request[1]] # {}
    /\ response.status = 400

\* C7: a selection of two versions with the same corpus, the same version
\* twice included, gives an empty result.
C7_SelfComparisonEmpty ==
    (Returned /\ Len(request) = 2
              /\ help_dir[request[1]] = help_dir[request[2]]) =>
        DOMAIN returned = {}

C7_Witness ==
    /\ Returned
    /\ Len(request) = 2
    /\ request[1] # request[2]
    /\ help_dir[request[1]] = help_dir[request[2]]
    /\ Cardinality(DOMAIN help_dir[request[1]]) = 2
    /\ DOMAIN returned = {}

\* C8: with N >= 3 distinct versions, highlight_diff goes through the pairs
\* in the order (0,1), (0,2), ..., (N-2,N-1), and the result keeps for the
\* version at position k < N-1 the left rendering of pair (k, N-1) and for
\* the version at position N-1 the right rendering of pair (N-2, N-1).
C8_LastPairWins ==
    (NoRepeat(request) /\ Len(request) >= 3) =>
        LET N == Len(request)
        IN  /\ pc = "highlight" =>
                  /\ IsPrefix(pairs, PairOrder(N))
                  /\ i >= N - 1 => pairs = PairOrder(N)
                  /\ i < N - 1 => PairOrder(N)[Len(pairs) + 1] = <<i, j>>
            /\ \A cmd \in DOMAIN diffs :
                  /\ \A k \in 1..(N - 1) :
                        diffs[cmd][request[k]] =
                           HighlightPair(TextOf(request[k], cmd),
                                         TextOf(request[N], cmd))[1]
                  /\ diffs[cmd][request[N]] =
                        HighlightPair(TextOf(request[N - 1], cmd),
                                      TextOf(request[N], cmd))[2]

C8_Witness ==
    /\ Returned
    /\ NoRepeat(request) /\ Len(request) = 3
    /\ \E cmd \in DOMAIN returned :
          /\ returned[cmd][request[1]] #
                HighlightPair(TextOf(request[1], cmd), TextOf(request[2], cmd))[1]
          /\ returned[cmd][request[2]] #
                HighlightPair(TextOf(request[1], cmd), TextOf(request[2], cmd))[2]

\* C9: for 2 or more distinct versions, every command of the result has, in
\* at least one version's rendering, a line tagged added or deleted.
C9_ReportedShowsDifference ==
    (Returned /\ Cardinality(Range(request)) >= 2) =>
        \A cmd \in DOMAIN returned :
            \E v \in DOMAIN returned[cmd] :
                TagsOf(RenderedLines(returned[cmd][v])) \cap {"added", "deleted"} # {}

\* C10: for 2 or more distinct versions, every command of the result maps
\* exactly the selected versions, each to one block container.
C10_OneRenderingPerVersion ==
    (Returned /\ Cardinality(Range(request)) >= 2) =>
        \A cmd \in DOMAIN returned :
            /\ DOMAIN returned[cmd] = Range(request)
            /\ \A v \in Range(request) : IsBlock(returned[cmd][v])

C10_Witness ==
    /\ Returned
    /\ Cardinality(Range(request)) = 3
    /\ \E cmd \in DOMAIN returned :
          /\ DOMAIN returned[cmd] = Range(request)
          /\ \E v \in Range(request) :
                /\ cmd \notin DOMAIN help_dir[v]
                /\ returned[cmd][v] = <<PreOpen, PreClose>>

====
